---- MODULE Spec2Model ----
(***************************************************************************)
(* Model of scripts/generate_stats.py: three aggregation passes over a CSV *)
(* inventory (count_files_by_scope, count_total_storage, count_photos),    *)
(* followed by the assembly of the report and its write to                 *)
(* _data/autodrive_stats.json.                                             *)
(*                                                                         *)
(* Text is a sequence of one-character strings, so that lower(), strip(),  *)
(* int() and startswith() are computed character by character.  The CSV    *)
(* file is modelled after tokenisation by the csv module: a header (a      *)
(* sequence of column names) and the data lines (each a sequence of field  *)
(* texts, possibly shorter or longer than the header, or empty for a blank *)
(* line).                                                                  *)
(***************************************************************************)
EXTENDS Integers, Sequences, FiniteSets, TLC

(* ---------------------------- bounds ----------------------------------- *)

\* largest number of data lines in an input file
MaxRows == 2
\* number of successive invocations of the script in one behaviour
MaxRuns == 2
\* the latest instant, in half minutes, at which a run reads the clock
MaxClock == 2

(* ---------------------------- text ------------------------------------- *)

Quote == "\""

\* the value DictReader stores for a field the line does not have (restval)
None == <<"<None>">>

UpperChars == <<"A","B","C","D","E","F","G","H","I","J","K","L","M",
                "N","O","P","Q","R","S","T","U","V","W","X","Y","Z">>

LowerChars == <<"a","b","c","d","e","f","g","h","i","j","k","l","m",
                "n","o","p","q","r","s","t","u","v","w","x","y","z">>

DigitChars == <<"0","1","2","3","4","5","6","7","8","9">>

WhiteChars == {" ", "\t", "\n", "\r"}

IsDigit(c) == \E i \in 1..Len(DigitChars) : DigitChars[i] = c

DigitVal(c) == (CHOOSE i \in 1..Len(DigitChars) : DigitChars[i] = c) - 1

\* str.lower() on one character
LowerChar(c) ==
    IF \E i \in 1..Len(UpperChars) : UpperChars[i] = c
    THEN LowerChars[CHOOSE i \in 1..Len(UpperChars) : UpperChars[i] = c]
    ELSE c

\* str.lower()
lower(s) == [i \in 1..Len(s) |-> LowerChar(s[i])]

\* str.startswith(prefix)
startswith(s, prefix) ==
    /\ Len(s) >= Len(prefix)
    /\ SubSeq(s, 1, Len(prefix)) = prefix

RECURSIVE lstrip(_, _)
\* str.lstrip(chars): drops every leading character that is in chars
lstrip(s, chars) ==
    IF s # <<>> /\ Head(s) \in chars THEN lstrip(Tail(s), chars) ELSE s

RECURSIVE rstrip(_, _)
\* str.rstrip(chars): drops every trailing character that is in chars
rstrip(s, chars) ==
    IF s # <<>> /\ s[Len(s)] \in chars
    THEN rstrip(SubSeq(s, 1, Len(s) - 1), chars)
    ELSE s

\* a plausible variant of strip: removes one surrounding pair of characters
\* of chars, and only when both ends carry one
strip_one_layer(s, chars) ==
    IF Len(s) >= 2 /\ s[1] \in chars /\ s[Len(s)] \in chars
    THEN SubSeq(s, 2, Len(s) - 1)
    ELSE s

\* str.strip(chars), as used in  size_str.strip('"')
strip(s, chars) == rstrip(lstrip(s, chars), chars)

RECURSIVE DigitsValue(_, _)
\* value of a run of digits and underscores, most significant first
DigitsValue(s, acc) ==
    IF s = <<>> THEN acc
    ELSE IF Head(s) = "_" THEN DigitsValue(Tail(s), acc)
    ELSE DigitsValue(Tail(s), 10 * acc + DigitVal(Head(s)))

\* the body of an integer literal: digits, single underscores between digits
IsDigitRun(s) ==
    /\ s # <<>>
    /\ \A i \in 1..Len(s) : IsDigit(s[i]) \/ s[i] = "_"
    /\ IsDigit(s[1]) /\ IsDigit(s[Len(s)])
    /\ \A i \in 1..(Len(s) - 1) : ~(s[i] = "_" /\ s[i + 1] = "_")

\* int(text): surrounding whitespace is ignored, one optional sign, then a
\* digit run; anything else raises ValueError (ok = FALSE)
int(s) ==
    LET t == strip(s, WhiteChars)
        signed == t # <<>> /\ Head(t) \in {"+", "-"}
        body == IF signed THEN Tail(t) ELSE t
        mag == DigitsValue(body, 0)
    IN IF IsDigitRun(body)
       THEN [ok |-> TRUE,
             val |-> IF signed /\ Head(t) = "-" THEN 0 - mag ELSE mag]
       ELSE [ok |-> FALSE, val |-> 0]

(* ---------------------------- csv.DictReader --------------------------- *)

K_scope == <<"s","c","o","p","e">>
K_size == <<"s","i","z","e">>
K_mimeType == <<"m","i","m","e","T","y","p","e">>

T_empty == <<>>
T_zero == <<"0">>
T_public == <<"p","u","b","l","i","c">>
T_private == <<"p","r","i","v","a","t","e">>
T_image == <<"i","m","a","g","e","/">>

\* the data lines the reader yields: DictReader drops blank lines
RECURSIVE DataRows(_)
DataRows(lines) ==
    IF lines = <<>> THEN <<>>
    ELSE IF Head(lines) = <<>> THEN DataRows(Tail(lines))
    ELSE <<Head(lines)>> \o DataRows(Tail(lines))

\* row.get(key, default) on the dict DictReader builds from one line: a
\* column of the header the line is too short for holds None (restval), a
\* key that is no column of the header takes the default; of two columns
\* with one name the later wins
get(fieldnames, line, key, default) ==
    LET cols == {i \in 1..Len(fieldnames) : fieldnames[i] = key}
        col == CHOOSE i \in cols : \A j \in cols : j <= i
    IN IF cols = {} THEN default
       ELSE IF col <= Len(line) THEN line[col]
       ELSE None

(* ---------------------------- count_files_by_scope --------------------- *)

RECURSIVE ScopeLoop(_, _, _)
\* the for loop of count_files_by_scope over rows; counts has the keys
\* 'public' and 'private' only.  None.lower() raises AttributeError.
ScopeLoop(fieldnames, rows, counts) ==
    IF rows = <<>> THEN [raised |-> FALSE, counts |-> counts]
    ELSE LET v == get(fieldnames, Head(rows), K_scope, T_empty)
         IN IF v = None THEN [raised |-> TRUE, counts |-> counts]
            ELSE LET scope == lower(v)
                 IN IF scope \in DOMAIN counts
                    THEN ScopeLoop(fieldnames, Tail(rows),
                                   [counts EXCEPT ![scope] = @ + 1])
                    ELSE ScopeLoop(fieldnames, Tail(rows), counts)

\* a plausible variant: total counts every row scanned
count_files_total_rows(csv) ==
    IF csv.kind = "absent"
    THEN [raised |-> FALSE, val |-> [total |-> 0, public |-> 0, private |-> 0]]
    ELSE IF csv.kind = "unreadable"
    THEN [raised |-> TRUE, val |-> [total |-> 0, public |-> 0, private |-> 0]]
    ELSE LET rows == DataRows(csv.lines)
             r == ScopeLoop(csv.fieldnames, rows,
                            (T_public :> 0) @@ (T_private :> 0))
         IN [raised |-> r.raised,
             val |-> [public |-> r.counts[T_public],
                      private |-> r.counts[T_private],
                      total |-> Len(rows)]]

\* try: scan, then counts['total'] = counts['public'] + counts['private'];
\* except FileNotFoundError: the zero mapping.  Any other exception leaves
\* the function (raised).
count_files_by_scope(csv) ==
    IF csv.kind = "absent"
    THEN [raised |-> FALSE, val |-> [total |-> 0, public |-> 0, private |-> 0]]
    ELSE IF csv.kind = "unreadable"
    THEN [raised |-> TRUE, val |-> [total |-> 0, public |-> 0, private |-> 0]]
    ELSE LET rows == DataRows(csv.lines)
             r == ScopeLoop(csv.fieldnames, rows,
                            (T_public :> 0) @@ (T_private :> 0))
         IN [raised |-> r.raised,
             val |-> [public |-> r.counts[T_public],
                      private |-> r.counts[T_private],
                      total |-> r.counts[T_public] + r.counts[T_private]]]

(* ---------------------------- count_total_storage ---------------------- *)

GB == 1000000000

\* a / b kept as an exact fraction (the float the division yields)
truediv(a, b) == [num |-> a, den |-> b]

\* the integer 0 the missing-file fallbacks return
IntZero == [num |-> 0, den |-> 1]

RECURSIVE StorageLoopBreak(_, _, _)
\* a plausible variant: the scan stops at the first size that does not parse
StorageLoopBreak(fieldnames, rows, total) ==
    IF rows = <<>> THEN total
    ELSE LET size_str == get(fieldnames, Head(rows), K_size, T_zero)
             size == IF size_str = None THEN [ok |-> FALSE, val |-> 0]
                     ELSE int(strip(size_str, {Quote}))
         IN IF size.ok
            THEN StorageLoopBreak(fieldnames, Tail(rows), total + size.val)
            ELSE total

RECURSIVE StorageLoopMinus(_, _, _)
\* a plausible variant: the size is subtracted instead of added
StorageLoopMinus(fieldnames, rows, total) ==
    IF rows = <<>> THEN total
    ELSE LET size_str == get(fieldnames, Head(rows), K_size, T_zero)
             size == IF size_str = None THEN [ok |-> FALSE, val |-> 0]
                     ELSE int(strip(size_str, {Quote}))
         IN IF size.ok
            THEN StorageLoopMinus(fieldnames, Tail(rows), total - size.val)
            ELSE StorageLoopMinus(fieldnames, Tail(rows), total)

RECURSIVE StorageLoop(_, _, _)
\* the for loop of count_total_storage: None.strip raises AttributeError and
\* int() raises ValueError, both caught by the inner except, which continues
StorageLoop(fieldnames, rows, total) ==
    IF rows = <<>> THEN total
    ELSE LET size_str == get(fieldnames, Head(rows), K_size, T_zero)
             size == IF size_str = None THEN [ok |-> FALSE, val |-> 0]
                     ELSE int(strip(size_str, {Quote}))
         IN IF size.ok
            THEN StorageLoop(fieldnames, Tail(rows), total + size.val)
            ELSE StorageLoop(fieldnames, Tail(rows), total)

\* a plausible variant: FileNotFoundError is not caught
count_total_storage_no_except(csv) ==
    IF csv.kind \in {"absent", "unreadable"}
    THEN [raised |-> TRUE, val |-> IntZero]
    ELSE [raised |-> FALSE,
          val |-> truediv(StorageLoop(csv.fieldnames, DataRows(csv.lines), 0),
                          GB)]

\* try: scan and divide by 1e9; except FileNotFoundError: 0
count_total_storage(csv) ==
    IF csv.kind = "absent" THEN [raised |-> FALSE, val |-> IntZero]
    ELSE IF csv.kind = "unreadable" THEN [raised |-> TRUE, val |-> IntZero]
    ELSE [raised |-> FALSE,
          val |-> truediv(StorageLoop(csv.fieldnames, DataRows(csv.lines), 0),
                          GB)]

(* ---------------------------- count_photos ----------------------------- *)

RECURSIVE PhotoLoop(_, _, _)
\* the for loop of count_photos; None.startswith raises AttributeError
PhotoLoop(fieldnames, rows, photo_count) ==
    IF rows = <<>> THEN [raised |-> FALSE, val |-> photo_count]
    ELSE LET v == get(fieldnames, Head(rows), K_mimeType, T_empty)
         IN IF v = None THEN [raised |-> TRUE, val |-> photo_count]
            ELSE IF startswith(v, T_image)
            THEN PhotoLoop(fieldnames, Tail(rows), photo_count + 1)
            ELSE PhotoLoop(fieldnames, Tail(rows), photo_count)

\* a plausible variant: the pass reads on from a reader an earlier pass has
\* already exhausted
count_photos_shared_reader(csv) ==
    IF csv.kind = "absent" THEN [raised |-> FALSE, val |-> 0]
    ELSE IF csv.kind = "unreadable" THEN [raised |-> TRUE, val |-> 0]
    ELSE PhotoLoop(csv.fieldnames, <<>>, 0)

\* try: scan; except FileNotFoundError: 0
count_photos(csv) ==
    IF csv.kind = "absent" THEN [raised |-> FALSE, val |-> 0]
    ELSE IF csv.kind = "unreadable" THEN [raised |-> TRUE, val |-> 0]
    ELSE PhotoLoop(csv.fieldnames, DataRows(csv.lines), 0)

(* ---------------------------- state ----------------------------------- *)

VARIABLES
    discovered_csv, \* contracts/autodrive-read/autodrive_records.csv
    data_dir,       \* _data: "absent", "dir", or "file" (a non-directory)
    out_file,       \* _data/autodrive_stats.json
    clock,          \* the instant the clock was last read at, in half minutes
    pc,             \* position of the running generate_stats, or its outcome
    failed_at,      \* the step whose exception ended the run
    run,            \* number of invocations started
    file_counts, total_storage, photos, stats, \* locals of generate_stats
    start_out,      \* history: out_file when the current run started
    last_report     \* history: out_file as the last completed run left it

vars == <<discovered_csv, data_dir, out_file, clock, pc, failed_at, run,
          file_counts, total_storage, photos, stats, start_out, last_report>>

ZeroFiles == [total |-> 0, public |-> 0, private |-> 0]

ZeroStats == [timestamp |-> 0, files |-> ZeroFiles,
              total_storage |-> IntZero, photos |-> 0]

\* datetime.now(timezone.utc).strftime("%B %d, %Y at %H:%M UTC"): the
\* rendering keeps the minute and drops the seconds
TicksPerMinute == 2

format_timestamp(now) == now \div TicksPerMinute

\* the first k of the four members json.dump writes, in the order the stats
\* dict was built: timestamp, files, total_storage, photos
Written(st, k) ==
    [timestamp |-> IF k >= 1 THEN st.timestamp ELSE 0,
     files |-> IF k >= 2 THEN st.files ELSE ZeroFiles,
     total_storage |-> IF k >= 3 THEN st.total_storage ELSE IntZero,
     photos |-> IF k >= 4 THEN st.photos ELSE 0]

\* A file is the number n of members it holds (4: a complete report, 0: an
\* empty file, -1: no file) and the members.
NoFile == [n |-> 0 - 1, data |-> ZeroStats]

json_dump(st, k) == [n |-> k, data |-> Written(st, k)]

\* a report some earlier version of the input produced
OldReport ==
    json_dump([timestamp |-> 0,
               files |-> [total |-> 7, public |-> 3, private |-> 4],
               total_storage |-> truediv(9, GB), photos |-> 6], 4)

AbsentCsv == [kind |-> "absent", fieldnames |-> <<>>, lines |-> <<>>]

UnreadableCsv == [kind |-> "unreadable", fieldnames |-> <<>>, lines |-> <<>>]

(* ---------------------------- generate_stats --------------------------- *)

Raise(step) ==
    /\ pc' = "failed"
    /\ failed_at' = step

\* a plausible variant: the output is opened for writing before the passes
StartOpensOutput ==
    /\ pc \in {"idle", "done", "failed"}
    /\ run < MaxRuns
    /\ run' = run + 1
    /\ pc' = "count_files"
    /\ failed_at' = "none"
    /\ file_counts' = ZeroFiles
    /\ total_storage' = IntZero
    /\ photos' = 0
    /\ stats' = ZeroStats
    /\ start_out' = out_file
    /\ last_report' = IF pc = "done" THEN [valid |-> TRUE, file |-> out_file]
                      ELSE last_report
    /\ out_file' = json_dump(ZeroStats, 0)
    /\ UNCHANGED <<discovered_csv, data_dir, clock>>

\* the script is invoked
Start ==
    /\ pc \in {"idle", "done", "failed"}
    /\ run < MaxRuns
    /\ run' = run + 1
    /\ pc' = "count_files"
    /\ failed_at' = "none"
    /\ file_counts' = ZeroFiles
    /\ total_storage' = IntZero
    /\ photos' = 0
    /\ stats' = ZeroStats
    /\ start_out' = out_file
    /\ last_report' = IF pc = "done" THEN [valid |-> TRUE, file |-> out_file]
                      ELSE last_report
    /\ UNCHANGED <<discovered_csv, data_dir, out_file, clock>>

\* file_counts = count_files_by_scope(discovered_csv)
CountFiles ==
    /\ pc = "count_files"
    /\ LET r == count_files_by_scope(discovered_csv)
       IN IF r.raised
          THEN Raise("count_files") /\ UNCHANGED file_counts
          ELSE /\ file_counts' = r.val
               /\ pc' = "count_storage"
               /\ UNCHANGED failed_at
    /\ UNCHANGED <<discovered_csv, data_dir, out_file, clock, run,
                   total_storage, photos, stats, start_out, last_report>>

\* total_storage = count_total_storage(discovered_csv)
CountStorage ==
    /\ pc = "count_storage"
    /\ LET r == count_total_storage(discovered_csv)
       IN IF r.raised
          THEN Raise("count_storage") /\ UNCHANGED total_storage
          ELSE /\ total_storage' = r.val
               /\ pc' = "count_photos"
               /\ UNCHANGED failed_at
    /\ UNCHANGED <<discovered_csv, data_dir, out_file, clock, run,
                   file_counts, photos, stats, start_out, last_report>>

\* photos = count_photos(discovered_csv)
CountPhotos ==
    /\ pc = "count_photos"
    /\ LET r == count_photos(discovered_csv)
       IN IF r.raised
          THEN Raise("count_photos") /\ UNCHANGED photos
          ELSE /\ photos' = r.val
               /\ pc' = "build"
               /\ UNCHANGED failed_at
    /\ UNCHANGED <<discovered_csv, data_dir, out_file, clock, run,
                   file_counts, total_storage, stats, start_out, last_report>>

\* stats = {'timestamp': format_timestamp(), 'files': ..., ...}; the
\* instant datetime.now yields is not earlier than the one read before
BuildStats ==
    /\ pc = "build"
    /\ \E now \in clock..MaxClock :
          /\ clock' = now
          /\ stats' = [timestamp |-> format_timestamp(now),
                       files |-> file_counts,
                       total_storage |-> total_storage,
                       photos |-> photos]
    /\ pc' = "mkdir"
    /\ UNCHANGED <<discovered_csv, data_dir, out_file, run, failed_at,
                   file_counts, total_storage, photos, start_out, last_report>>

\* data_dir.mkdir(exist_ok=True): FileExistsError when _data is not a
\* directory
Mkdir ==
    /\ pc = "mkdir"
    /\ IF data_dir = "file"
       THEN Raise("mkdir") /\ UNCHANGED data_dir
       ELSE /\ data_dir' = "dir"
            /\ pc' = "open"
            /\ UNCHANGED failed_at
    /\ UNCHANGED <<discovered_csv, out_file, clock, run, file_counts,
                   total_storage, photos, stats, start_out, last_report>>

\* open(data_dir / 'autodrive_stats.json', 'w') creates the file or
\* truncates it
OpenOutput ==
    /\ pc = "open"
    /\ out_file' = json_dump(stats, 0)
    /\ pc' = "dump"
    /\ UNCHANGED <<discovered_csv, data_dir, clock, run, failed_at,
                   file_counts, total_storage, photos, stats, start_out,
                   last_report>>

\* open(..., 'w') raises OSError (no permission, read-only file system):
\* nothing is created or truncated
OpenOutputFails ==
    /\ pc = "open"
    /\ Raise("open")
    /\ UNCHANGED <<discovered_csv, data_dir, out_file, clock, run,
                   file_counts, total_storage, photos, stats, start_out,
                   last_report>>

\* a plausible variant: the report is merged into the content of the file
DumpMerge ==
    /\ pc = "dump"
    /\ out_file' = json_dump([stats EXCEPT
                                !.photos = @ + start_out.data.photos], 4)
    /\ pc' = "done"
    /\ UNCHANGED <<discovered_csv, data_dir, clock, run, failed_at,
                   file_counts, total_storage, photos, stats, start_out,
                   last_report>>

\* json.dump(stats, f, indent=2) and the close of the file succeed
Dump ==
    /\ pc = "dump"
    /\ out_file' = json_dump(stats, 4)
    /\ pc' = "done"
    /\ UNCHANGED <<discovered_csv, data_dir, clock, run, failed_at,
                   file_counts, total_storage, photos, stats, start_out,
                   last_report>>

\* a write of json.dump or the flush at close raises OSError (disk full,
\* I/O error) after k of the members reached the file
DumpFails ==
    /\ pc = "dump"
    /\ \E k \in 0..3 : out_file' = json_dump(stats, k)
    /\ Raise("dump")
    /\ UNCHANGED <<discovered_csv, data_dir, clock, run, file_counts,
                   total_storage, photos, stats, start_out, last_report>>

Next ==
    \/ Start
    \/ CountFiles
    \/ CountStorage
    \/ CountPhotos
    \/ BuildStats
    \/ Mkdir
    \/ OpenOutput
    \/ OpenOutputFails
    \/ Dump
    \/ DumpFails

(* ---------------------------- inputs ---------------------------------- *)

T_Public == <<"P","u","b","l","i","c">>
T_PRIVATE == <<"P","R","I","V","A","T","E">>
T_total == <<"t","o","t","a","l">>

T_5 == <<"5">>
T_q5q == <<Quote,"5",Quote>>
T_qq5qq == <<Quote,Quote,"5",Quote,Quote>>
T_q5 == <<Quote,"5">>
T_minus7 == <<"-","7">>
T_abc == <<"a","b","c">>

T_png == <<"i","m","a","g","e","/","p","n","g">>
T_IMAGE == <<"I","M","A","G","E","/","x">>
T_imagex == <<"i","m","a","g","e","x">>
T_pdf == <<"a","/","p","d","f">>

H_std == <<K_scope, K_size, K_mimeType>>
H_rev == <<K_mimeType, K_size, K_scope>>
H_noscope == <<K_size, K_mimeType>>
H_nosize == <<K_scope, K_mimeType>>
H_nomime == <<K_scope, K_size>>

\* the lines a file with header h can hold: at most one more field than the
\* header has columns, the field under column c drawn from V[c], a field
\* beyond the header from E
LinesOf(h, V, E) ==
    LET All == UNION {V[c] : c \in DOMAIN V} \cup E
    IN UNION {{l \in [1..n -> All] :
                  \A i \in 1..n : IF i <= Len(h) THEN l[i] \in V[h[i]]
                                  ELSE l[i] \in E}
              : n \in 0..(Len(h) + 1)}

SeqsUpTo(S, n) == UNION {[1..k -> S] : k \in 0..n}

\* the readable files with a header of H, at most MaxRows lines
Files(H, V, E) ==
    UNION {{[kind |-> "ok", fieldnames |-> h, lines |-> ls] :
               ls \in SeqsUpTo(LinesOf(h, V, E), MaxRows)} : h \in H}

\* a file of zero bytes: no header, no line
EmptyCsv == [kind |-> "ok", fieldnames |-> <<>>, lines |-> <<>>]

V_mixed == (K_scope :> {T_PRIVATE, T_total}) @@
           (K_size :> {T_q5q, T_abc}) @@
           (K_mimeType :> {T_png})

V_scope == (K_scope :> {T_Public, T_PRIVATE, T_private, T_total, T_empty}) @@
           (K_size :> {T_5}) @@
           (K_mimeType :> {T_png})

V_size == (K_scope :> {T_public}) @@
          (K_size :> {T_q5q, T_qq5qq, T_q5, T_minus7, T_abc, T_empty}) @@
          (K_mimeType :> {T_pdf})

V_mime == (K_scope :> {T_private}) @@
          (K_size :> {T_5}) @@
          (K_mimeType :> {T_png, T_IMAGE, T_imagex, T_image, T_pdf, T_empty})

InputsMixed ==
    {AbsentCsv, UnreadableCsv, EmptyCsv}
        \cup Files({H_std, H_rev}, V_mixed, {})

InputsScope ==
    {AbsentCsv, UnreadableCsv}
        \cup Files({H_std, H_rev, H_noscope}, V_scope, {})

InputsSize ==
    {AbsentCsv, UnreadableCsv}
        \cup Files({H_std}, V_size, {})
        \cup Files({H_nosize}, V_size, {T_abc})

InputsMime ==
    {AbsentCsv, UnreadableCsv}
        \cup Files({H_std, H_nomime}, V_mime, {})

InitWith(inputs) ==
    /\ discovered_csv \in inputs
    /\ data_dir \in {"absent", "dir", "file"}
    /\ out_file \in {NoFile, OldReport}
    /\ data_dir # "dir" => out_file = NoFile
    /\ clock = 0
    /\ pc = "idle"
    /\ failed_at = "none"
    /\ run = 0
    /\ file_counts = ZeroFiles
    /\ total_storage = IntZero
    /\ photos = 0
    /\ stats = ZeroStats
    /\ start_out = out_file
    /\ last_report = [valid |-> FALSE, file |-> NoFile]

Init == InitWith(InputsMixed)

InitScope == InitWith(InputsScope)

InitSize == InitWith(InputsSize)

InitMime == InitWith(InputsMime)

Spec == Init /\ [][Next]_vars

SpecScope == InitScope /\ [][Next]_vars

SpecSize == InitSize /\ [][Next]_vars

SpecMime == InitMime /\ [][Next]_vars

TypeOK ==
    /\ pc \in {"idle", "count_files", "count_storage", "count_photos",
               "build", "mkdir", "open", "dump", "done", "failed"}
    /\ run \in 0..MaxRuns

(* ---------------------------- properties ------------------------------ *)

StepNo(step) ==
    CASE step = "idle" -> 0
      [] step = "count_files" -> 1
      [] step = "count_storage" -> 2
      [] step = "count_photos" -> 3
      [] step = "build" -> 4
      [] step = "mkdir" -> 5
      [] step = "open" -> 6
      [] step = "dump" -> 7
      [] step = "done" -> 8

\* the step the current run is at, or failed at
Position == IF pc = "failed" THEN StepNo(failed_at) ELSE StepNo(pc)

\* the current run has completed the given step
Passed(step) == Position > StepNo(step)

IsFile == discovered_csv.kind = "ok"

Rows == DataRows(discovered_csv.lines)

Field(i, key, default) == get(discovered_csv.fieldnames, Rows[i], key, default)

RECURSIVE SumIdx(_, _)
SumIdx(S, f) ==
    IF S = {} THEN 0
    ELSE LET i == CHOOSE j \in S : TRUE IN f[i] + SumIdx(S \ {i}, f)

\* the run wrote the files member of the report
WroteFiles ==
    /\ pc = "done" \/ (pc = "failed" /\ failed_at = "dump")
    /\ out_file.n >= 2

\* C1: in every report generate_stats writes, files.total equals
\* files.public + files.private, whatever the input (absent, header only,
\* rows whose scope is neither public nor private, such as 'total').
C1_TotalIsSum ==
    WroteFiles =>
        out_file.data.files.total =
            out_file.data.files.public + out_file.data.files.private

\* a complete report for a file that holds a row of scope 'total' next to a
\* private one
C1_Witness ==
    /\ pc = "done"
    /\ IsFile
    /\ \E i \in 1..Len(Rows) : Field(i, K_scope, T_empty) = T_total
    /\ out_file.data.files.private = 1
    /\ out_file.data.files.total = 1

\* C2: when the input CSV does not exist no read pass fails, each pass
\* returns its zero default, and the report a completed run writes has
\* files = {0, 0, 0}, total_storage = 0 and photos = 0.
C2_MissingFileZeros ==
    discovered_csv.kind = "absent" =>
        /\ failed_at \notin {"count_files", "count_storage", "count_photos"}
        /\ Passed("count_files") => file_counts = ZeroFiles
        /\ Passed("count_storage") => total_storage = IntZero
        /\ Passed("count_photos") => photos = 0
        /\ pc = "done" =>
              /\ out_file.n = 4
              /\ out_file.data.files = ZeroFiles
              /\ out_file.data.total_storage = IntZero
              /\ out_file.data.photos = 0

\* a run without input file that replaced an old report by the zero report
C2_Witness ==
    /\ discovered_csv.kind = "absent"
    /\ pc = "done"
    /\ start_out = OldReport
    /\ out_file.data.photos = 0

\* C3 as stated: a run that ends in a failure, at whatever step, leaves the
\* output file with the content it had before the run.
C3_FailureKeepsOutput ==
    pc = "failed" => out_file = start_out

\* C3 amended: a failure at any step up to and including the opening of the
\* output leaves the output file as it was; a failure during serialization
\* leaves a file that holds a proper prefix of the new report.
C3_FailureBeforeDumpKeepsOutput ==
    pc = "failed" =>
        IF failed_at = "dump"
        THEN out_file.n \in 0..3 /\ out_file = json_dump(stats, out_file.n)
        ELSE out_file = start_out

\* a read pass failed with an old report on disk
C3_Witness ==
    /\ pc = "failed"
    /\ failed_at \in {"count_files", "count_storage", "count_photos"}
    /\ IsFile
    /\ start_out = OldReport
    /\ out_file = OldReport

\* number of rows whose scope text, lower-cased, is the key; a missing scope
\* counts as no scope
ScopeCount(key) ==
    Cardinality({i \in 1..Len(Rows) :
                    /\ Field(i, K_scope, T_empty) # None
                    /\ lower(Field(i, K_scope, T_empty)) = key})

\* C4 as stated: count_files_by_scope counts the rows whose lower-cased scope
\* is 'public' or 'private'; a row with another, an empty or a missing scope
\* is skipped without failing the run, and the other passes still run over it.
C4_OtherScopesSkipped ==
    IsFile =>
        /\ failed_at # "count_files"
        /\ Passed("count_files") =>
              /\ file_counts.public = ScopeCount(T_public)
              /\ file_counts.private = ScopeCount(T_private)

\* C5: count_total_storage returns the sum of the sizes of exactly the rows
\* whose size parses, over 10^9; a row whose size is missing, empty or not
\* parseable contributes 0, neither stops the scan nor discards the sum, and
\* never fails the run.
Parsed(i) ==
    LET v == Field(i, K_size, T_zero)
    IN IF v = None THEN [ok |-> FALSE, val |-> 0] ELSE int(strip(v, {Quote}))

C5_StorageIsSumOfParseable ==
    IsFile =>
        /\ failed_at # "count_storage"
        /\ Passed("count_storage") =>
              total_storage =
                  truediv(SumIdx({i \in 1..Len(Rows) : Parsed(i).ok},
                                 [i \in 1..Len(Rows) |-> Parsed(i).val]), GB)

\* an unparseable size before a parseable one: the scan went on and the
\* later size is in the sum
C5_Witness ==
    /\ IsFile
    /\ Passed("count_storage")
    /\ Len(Rows) = 2
    /\ ~Parsed(1).ok /\ Parsed(2).ok
    /\ Parsed(2).val = 5
    /\ total_storage.num = 5

\* the text between the first and the last character of s that is no quote
BetweenQuotes(s) ==
    LET I == {i \in 1..Len(s) : s[i] # Quote}
    IN IF I = {} THEN <<>>
       ELSE SubSeq(s, CHOOSE i \in I : \A j \in I : i <= j,
                      CHOOSE i \in I : \A j \in I : j <= i)

SizeValue(i, Unquote(_)) ==
    LET v == Field(i, K_size, T_zero)
        r == IF v = None THEN [ok |-> FALSE, val |-> 0] ELSE int(Unquote(v))
    IN IF r.ok THEN r.val ELSE 0

OneLayer(s) == strip_one_layer(s, {Quote})

\* C6 as stated: exactly one layer of surrounding quotes is removed before
\* parsing; a size that is no integer after that (two layers, a quote on one
\* side only) is skipped.
C6_OneLayerStripped ==
    (IsFile /\ Passed("count_storage")) =>
        total_storage.num =
            SumIdx(1..Len(Rows), [i \in 1..Len(Rows) |-> SizeValue(i, OneLayer)])

\* C6 amended: every leading and every trailing quote is removed, each side
\* on its own, before parsing: the size is the integer between the first and
\* the last character that is no quote.
C6_AllQuotesStripped ==
    (IsFile /\ Passed("count_storage")) =>
        total_storage.num =
            SumIdx(1..Len(Rows),
                   [i \in 1..Len(Rows) |-> SizeValue(i, BetweenQuotes)])

\* a size in two layers of quotes and one with a single leading quote, both
\* counted
C6_Witness ==
    /\ IsFile
    /\ Passed("count_storage")
    /\ Len(Rows) = 2
    /\ Field(1, K_size, T_zero) = T_qq5qq
    /\ Field(2, K_size, T_zero) = T_q5
    /\ total_storage.num = 10

\* C7 as stated: total_storage in the written report is >= 0 whatever
\* parseable texts the sizes hold, and 0 when no row has a parseable size.
C7_StorageNonNegative ==
    pc = "done" =>
        /\ out_file.data.total_storage.num >= 0
        /\ (\A i \in 1..Len(Rows) : ~Parsed(i).ok) =>
               out_file.data.total_storage.num = 0

\* C7 amended: total_storage in the written report is >= 0 when no parseable
\* size is negative, and 0 when no row has a parseable size.
C7_StorageNonNegativeForNonNegativeSizes ==
    pc = "done" =>
        /\ (\A i \in 1..Len(Rows) : Parsed(i).ok => Parsed(i).val >= 0) =>
               out_file.data.total_storage.num >= 0
        /\ (\A i \in 1..Len(Rows) : ~Parsed(i).ok) =>
               out_file.data.total_storage.num = 0

\* a report over two rows of positive size
C7_Witness ==
    /\ pc = "done"
    /\ IsFile
    /\ Len(Rows) = 2
    /\ \A i \in 1..2 : Parsed(i).ok /\ Parsed(i).val > 0
    /\ out_file.data.total_storage.num > 0

\* the mimeType of row i read as text, an absent one as the empty text
MimeText(i) ==
    LET v == Field(i, K_mimeType, T_empty) IN IF v = None THEN T_empty ELSE v

\* C8 as stated: count_photos returns the number of rows whose mimeType
\* starts with 'image/', an absent mimeType (no such column, or a row shorter
\* than the header) read as empty text without failing the run; so photos
\* is at most the number of data rows.
C8_PhotosCountsImagePrefix ==
    IsFile =>
        /\ failed_at # "count_photos"
        /\ Passed("count_photos") =>
              /\ photos = Cardinality({i \in 1..Len(Rows) :
                                          startswith(MimeText(i), T_image)})
              /\ photos <= Len(Rows)

SameButTimestamp(f, g) ==
    /\ f.n = g.n
    /\ f.data.files = g.data.files
    /\ f.data.total_storage = g.data.total_storage
    /\ f.data.photos = g.data.photos

\* C9: a run that completes after an earlier completed run over the same
\* input leaves a report equal to the earlier one in every member but the
\* timestamp; the file holds exactly the new report, whatever it held and
\* whether or not directory and file existed.
C9_Idempotent ==
    pc = "done" =>
        /\ out_file = json_dump(stats, 4)
        /\ last_report.valid => SameButTimestamp(out_file, last_report.file)

\* a second report with photos in it, written a minute after the first
C9_Witness ==
    /\ pc = "done"
    /\ last_report.valid
    /\ out_file.data.photos >= 1
    /\ out_file.data.timestamp # last_report.file.data.timestamp

RECURSIVE SinglePassLoop(_, _, _)
\* one scan computing the three aggregates row by row, each with the row
\* operations of its pass
SinglePassLoop(fieldnames, rows, acc) ==
    IF rows = <<>> THEN acc
    ELSE LET sc == get(fieldnames, Head(rows), K_scope, T_empty)
             sz == get(fieldnames, Head(rows), K_size, T_zero)
             mt == get(fieldnames, Head(rows), K_mimeType, T_empty)
             size == IF sz = None THEN [ok |-> FALSE, val |-> 0]
                     ELSE int(strip(sz, {Quote}))
         IN IF sc = None \/ mt = None THEN [acc EXCEPT !.raised = TRUE]
            ELSE SinglePassLoop(fieldnames, Tail(rows),
                   [raised |-> FALSE,
                    public |-> acc.public
                               + (IF lower(sc) = T_public THEN 1 ELSE 0),
                    private |-> acc.private
                                + (IF lower(sc) = T_private THEN 1 ELSE 0),
                    bytes |-> acc.bytes + (IF size.ok THEN size.val ELSE 0),
                    photos |-> acc.photos
                               + (IF startswith(mt, T_image) THEN 1 ELSE 0)])

\* the generator that opens the input once; each aggregate takes its zero
\* fallback when the file is missing
SinglePass(csv) ==
    IF csv.kind = "absent"
    THEN [raised |-> FALSE, files |-> ZeroFiles, total_storage |-> IntZero,
          photos |-> 0]
    ELSE IF csv.kind = "unreadable"
    THEN [raised |-> TRUE, files |-> ZeroFiles, total_storage |-> IntZero,
          photos |-> 0]
    ELSE LET r == SinglePassLoop(csv.fieldnames, DataRows(csv.lines),
                     [raised |-> FALSE, public |-> 0, private |-> 0,
                      bytes |-> 0, photos |-> 0])
         IN [raised |-> r.raised,
             files |-> [total |-> r.public + r.private, public |-> r.public,
                        private |-> r.private],
             total_storage |-> truediv(r.bytes, GB),
             photos |-> r.photos]

\* C10: the three passes and the single pass fail on the same inputs and,
\* where they do not fail, yield the same files, total_storage and photos.
C10_SinglePassEquivalent ==
    LET one == SinglePass(discovered_csv)
    IN /\ (pc = "failed" /\ Position <= 3) => one.raised
       /\ Passed("count_photos") =>
             /\ ~one.raised
             /\ file_counts = one.files
             /\ total_storage = one.total_storage
             /\ photos = one.photos
       /\ pc = "done" =>
             /\ out_file.data.files = one.files
             /\ out_file.data.total_storage = one.total_storage
             /\ out_file.data.photos = one.photos

\* a file of two full rows, all three aggregates non-zero after the passes
C10_Witness ==
    /\ IsFile
    /\ Len(Rows) = 2
    /\ Passed("count_photos")
    /\ file_counts.total >= 1
    /\ total_storage.num >= 5
    /\ photos = 2

====
